---- MODULE Spec2Model ----
(***************************************************************************)
(* A model of the smartie command line interface (src/smartie/cli.py):     *)
(* the generic structure renderer print_structure and the three commands   *)
(* enumerate, details and debug, with the device handles they open, the    *)
(* accessors and device operations they call, and what they print.         *)
(***************************************************************************)
EXTENDS Integers, Sequences, FiniteSets, TLC

\* ------------------------------------------------------------------------
\* Bounds of the model
\* ------------------------------------------------------------------------
MaxDevices == 2
MaxFields == 3
MaxEntries == 2
NumSeeds == 2
ArrayLen == 21

\* ------------------------------------------------------------------------
\* ctypes types and structure descriptions
\*
\* A type is a record [kind, size, fields]; a field of _fields_ is a tuple
\* <<name, type>> or <<name, type, bitcount>>, as in ctypes.
\* ------------------------------------------------------------------------
c_uint8 == [kind |-> "int", size |-> 1, fields |-> <<>>]
c_uint16 == [kind |-> "int", size |-> 2, fields |-> <<>>]
c_uint64 == [kind |-> "int", size |-> 8, fields |-> <<>>]

ByteArray(n) == [kind |-> "array", size |-> n, fields |-> <<>>]

StructType(fs) == [kind |-> "struct", size |-> 0, fields |-> fs]

\* smartie.structures.c_uint128: a structure of two 64-bit words with __int__
c_uint128 ==
    [kind |-> "uint128", size |-> 0,
     fields |-> << <<1, c_uint64>>, <<2, c_uint64>> >>]

IsStructure(type) == type.kind \in {"struct", "uint128"}

RECURSIVE Pow2(_)
Pow2(n) == IF n = 0 THEN 1 ELSE 2 * Pow2(n - 1)

RECURSIVE SizeOf(_)
RECURSIVE LayoutFrom(_, _, _, _, _, _)

\* The ctypes layout of a packed structure whose bitfields are declared on
\* c_uint8: a bitfield continues the open storage unit while it fits and opens
\* a new one otherwise; any other field starts at the next whole byte.
\* Result: the true bit offset of every field and the size in bytes.
LayoutFrom(fs, i, size, bitofs, open, offs) ==
    IF i > Len(fs) THEN [offs |-> offs, size |-> size]
    ELSE LET f == fs[i] IN
         IF Len(f) = 3
         THEN IF open /\ bitofs + f[3] <= 8 * f[2].size
              THEN LayoutFrom(fs, i + 1, size, bitofs + f[3], TRUE,
                              Append(offs, (size - f[2].size) * 8 + bitofs))
              ELSE LayoutFrom(fs, i + 1, size + f[2].size, f[3], TRUE,
                              Append(offs, size * 8))
         ELSE LayoutFrom(fs, i + 1, size + SizeOf(f[2]), 0, FALSE,
                         Append(offs, size * 8))

Layout(fs) == LayoutFrom(fs, 1, 0, 0, FALSE, <<>>)

\* ctypes.sizeof(type_)
SizeOf(type) == IF IsStructure(type) THEN Layout(type.fields).size ELSE type.size

\* ------------------------------------------------------------------------
\* Structure instances and attribute values
\*
\* An instance is [type, buf]: the structure type and the bytes it overlays.
\* ------------------------------------------------------------------------
Slice(buf, byteoff, n) == SubSeq(buf, byteoff + 1, byteoff + n)

\* The classes isinstance() sees for a value read from a field of this type
ClassesOf(type) ==
    CASE type.kind = "array" -> {"Array"}
      [] type.kind = "uint128" -> {"c_uint128", "Structure"}
      [] type.kind = "struct" -> {"Structure"}
      [] OTHER -> {"int"}

\* getattr(structure, name) for the i-th field: [cls, type, buf], where buf is
\* the little-endian bytes of the value (for a bitfield, of the extracted bits)
GetAttr(structure, i) ==
    LET fs == structure.type.fields
        f == fs[i]
        o == Layout(fs).offs[i]
    IN  IF Len(f) = 3
        THEN LET byte == structure.buf[(o \div 8) + 1]
                 val == (byte \div Pow2(o % 8)) % Pow2(f[3])
             IN  [cls |-> {"int"}, type |-> f[2], buf |-> <<val>>]
        ELSE [cls |-> ClassesOf(f[2]), type |-> f[2],
              buf |-> Slice(structure.buf, o \div 8, SizeOf(f[2]))]

IsInstance(value, class) == class \in value.cls

\* ------------------------------------------------------------------------
\* Formatting helpers of print_structure
\* ------------------------------------------------------------------------
RECURSIVE Nibbles(_)
\* The hexadecimal digits, most significant first, of little-endian bytes
Nibbles(bytes) ==
    IF bytes = <<>> THEN <<>>
    ELSE LET b == bytes[Len(bytes)]
         IN  <<b \div 16, b % 16>> \o Nibbles(SubSeq(bytes, 1, Len(bytes) - 1))

RECURSIVE StripZeros(_)
StripZeros(ds) ==
    IF Len(ds) > 1 /\ ds[1] = 0 THEN StripZeros(Tail(ds)) ELSE ds

RECURSIVE PadTo(_, _)
PadTo(ds, n) == IF Len(ds) >= n THEN ds ELSE PadTo(<<0>> \o ds, n)

\* f"0x{int(value):03X}": the digits of the integer, zero-padded to 3
HexInt(value) == PadTo(StripZeros(Nibbles(value.buf)), 3)

ChunkSize == 20

RECURSIVE grouper_it(_, _)
\* grouper_it(n, iterable): consecutive chunks of at most n items
grouper_it(n, items) ==
    IF items = <<>> THEN <<>>
    ELSE IF Len(items) <= n THEN <<items>>
    ELSE <<SubSeq(items, 1, n)>> \o grouper_it(n, SubSeq(items, n + 1, Len(items)))

\* chr(byte) if 32 <= byte <= 126 else "."  (46 is the code of ".")
AsciiOf(byte) == IF 32 <= byte /\ byte <= 126 THEN byte ELSE 46

\* The hex/ASCII sub-table of an array value: one row per chunk
ArrayTable(value) ==
    LET chunks == grouper_it(ChunkSize, value.buf)
    IN  [k \in 1..Len(chunks) |->
            [hex |-> chunks[k],
             ascii |-> [j \in 1..Len(chunks[k]) |-> AsciiOf(chunks[k][j])]]]

\* ------------------------------------------------------------------------
\* print_structure
\* ------------------------------------------------------------------------
\* The bit count of a field: explicit for a 3-tuple, else 8 * sizeof(type)
BitCount(field) ==
    IF Len(field) = 3 THEN field[3] ELSE SizeOf(field[2]) * 8

\* RenderKind with the nested-structure test moved ahead of the c_uint128 test
RenderKindStructureFirst(value) ==
    IF IsInstance(value, "Array") THEN "array"
    ELSE IF IsInstance(value, "Structure") THEN "structure"
    ELSE IF IsInstance(value, "c_uint128") THEN "uint128"
    ELSE "int"

\* Which branch of the isinstance chain renders the value
RenderKind(value) ==
    IF IsInstance(value, "Array") THEN "array"
    ELSE IF IsInstance(value, "c_uint128") THEN "uint128"
    ELSE IF IsInstance(value, "Structure") THEN "structure"
    ELSE "int"

\* StartOffset carrying the enclosing field's offset into the nested table
StartOffsetEnclosing(enclosing) == enclosing

\* The offset a (nested) call of print_structure starts from
StartOffset(enclosing) == 0

RECURSIVE PrintLoop(_, _, _, _)
\* The loop over structure._fields_: the rows added to the table and the
\* offset reached.  A row is [lo, hi, name, kind, text, table].
PrintLoop(structure, i, offset, rows) ==
    IF i > Len(structure.type.fields) THEN [rows |-> rows, offset |-> offset]
    ELSE LET field == structure.type.fields[i]
             bitcount == BitCount(field)
             value == GetAttr(structure, i)
             kind == RenderKind(value)
             row == [lo |-> offset, hi |-> offset + bitcount,
                     name |-> field[1], kind |-> kind,
                     text |-> IF kind \in {"uint128", "int"}
                              THEN HexInt(value) ELSE <<>>,
                     table |-> CASE kind = "array" -> ArrayTable(value)
                                 [] kind = "structure" ->
                                      PrintLoop([type |-> value.type,
                                                 buf |-> value.buf],
                                                1, StartOffset(offset),
                                                <<>>).rows
                                 [] OTHER -> <<>>]
         IN  PrintLoop(structure, i + 1, offset + bitcount, Append(rows, row))

print_structure(structure) == PrintLoop(structure, 1, StartOffset(0), <<>>).rows

\* The value of the local variable offset when the loop ends
EndOffset(structure) == PrintLoop(structure, 1, StartOffset(0), <<>>).offset

\* ------------------------------------------------------------------------
\* The structures device operations return
\* ------------------------------------------------------------------------
InnerStruct ==
    StructType(<< <<1, c_uint8, 4>>, <<2, c_uint8, 4>>, <<3, ByteArray(2)>> >>)

\* The shapes of a field, without its name
FieldShapes ==
    { [type |-> c_uint8, bits |-> 0], [type |-> c_uint16, bits |-> 0],
      [type |-> c_uint8, bits |-> 3], [type |-> c_uint8, bits |-> 5],
      [type |-> ByteArray(ArrayLen), bits |-> 0],
      [type |-> c_uint128, bits |-> 0], [type |-> InnerStruct, bits |-> 0] }

MakeField(name, shape) ==
    IF shape.bits = 0 THEN <<name, shape.type>>
    ELSE <<name, shape.type, shape.bits>>

StructureTypes ==
    UNION { { StructType([i \in 1..n |-> MakeField(i, sh[i])]) :
                sh \in [1..n -> FieldShapes] } : n \in 1..MaxFields }

Seeds == 1..NumSeeds

\* The bytes a device answers with: exactly the expected number of bytes
Response(n, seed) == [i \in 1..n |-> (seed * 101 + i * 37) % 256]

\* The structure a device operation builds over the response bytes
Decode(type, bytes) == [type |-> type, buf |-> bytes]

NoStructure == [type |-> StructType(<<>>), buf |-> <<>>]

SenseData == [type |-> StructType(<< <<1, ByteArray(2)>> >>), buf |-> <<0, 0>>]

\* What the operation returns: SCSI operations return (structure, sense)
OpReturn(variant, structure) ==
    IF variant = "SCSI" THEN <<structure, SenseData>> ELSE structure

\* SelectStructure taking the second element of the SCSI result
SelectStructureSense(variant, ret) == IF variant = "SCSI" THEN ret[2] ELSE ret

\* structure = result()[0] for SCSI, structure = result() for NVMe
SelectStructure(variant, ret) == IF variant = "SCSI" THEN ret[1] ELSE ret

\* bytes(structure) / bytearray(structure): the memory of the structure
Bytes(structure) == structure.buf

\* ------------------------------------------------------------------------
\* Devices and invocations
\* ------------------------------------------------------------------------
Devices == 1..MaxDevices

DeviceTypes == {"SCSI", "NVMe", "Other"}

NoDevice == [id |-> 0, variant |-> "none"]

RECURSIVE Orders(_)
\* Every enumeration of distinct devices drawn from S
Orders(S) ==
    {<<>>} \cup UNION { { <<d>> \o q : q \in Orders(S \ {d}) } : d \in S }

Commands == {"inquiry", "identify", "smart", "thresholds"}

Displays == {"pretty", "raw", "bytearray"}

Invocations ==
    { [cmd |-> "enumerate", path |-> 0, command |-> "-", display |-> "-"] }
    \cup { [cmd |-> "details", path |-> p, command |-> "-", display |-> "-"] :
             p \in 0..MaxDevices }
    \cup { [cmd |-> "debug", path |-> p, command |-> c, display |-> d] :
             p \in 0..MaxDevices, c \in Commands, d \in Displays }

\* SCSICommands with thresholds bound to the smart operation
SCSICommandsThresholdsAsSmart ==
    [c \in Commands |->
        CASE c = "inquiry" -> "inquiry"
          [] c = "identify" -> "identify"
          [] c = "smart" -> "smart"
          [] c = "thresholds" -> "smart"]

\* NVMECommands with a thresholds entry, as in the SCSI table
NVMECommandsWithThresholds ==
    [c \in {"identify", "smart", "thresholds"} |->
        CASE c = "identify" -> "identify"
          [] c = "smart" -> "smart"
          [] c = "thresholds" -> "smart_thresholds"]

\* The dispatch tables of debug_command
SCSICommands ==
    [c \in Commands |->
        CASE c = "inquiry" -> "inquiry"
          [] c = "identify" -> "identify"
          [] c = "smart" -> "smart"
          [] c = "thresholds" -> "smart_thresholds"]

NVMECommands ==
    [c \in {"identify", "smart"} |->
        CASE c = "identify" -> "identify"
          [] c = "smart" -> "smart"]

\* dict.get(key)
DictGet(dict, key) == IF key \in DOMAIN dict THEN dict[key] ELSE "None"

Unsupported == "Command unknown or unsupported by this device."

Output(kind, rows, bytes, text) ==
    [kind |-> kind, rows |-> rows, bytes |-> bytes, text |-> text]

\* ------------------------------------------------------------------------
\* Control flow
\* ------------------------------------------------------------------------
\* EnumFlow with the serial read ahead of the model
EnumFlowSerialFirst(p) ==
    CASE p = "enum_next" -> "enum_enter"
      [] p = "enum_enter" -> "enum_path"
      [] p = "enum_path" -> "enum_serial"
      [] p = "enum_serial" -> "enum_model"
      [] p = "enum_model" -> "enum_temperature"
      [] p = "enum_temperature" -> "enum_add_row"
      [] p = "enum_add_row" -> "enum_exit"
      [] p = "enum_exit" -> "enum_next"
      [] OTHER -> "done"

\* The statement that follows each statement of enumerate_command
EnumFlow(p) ==
    CASE p = "enum_next" -> "enum_enter"
      [] p = "enum_enter" -> "enum_path"
      [] p = "enum_path" -> "enum_model"
      [] p = "enum_model" -> "enum_serial"
      [] p = "enum_serial" -> "enum_temperature"
      [] p = "enum_temperature" -> "enum_add_row"
      [] p = "enum_add_row" -> "enum_exit"
      [] p = "enum_exit" -> "enum_next"
      [] OTHER -> "done"

\* DetailsFlow with the SMART table read after the with block has ended
DetailsFlowSmartAfterWith(p) ==
    CASE p = "details_get" -> "details_enter"
      [] p = "details_enter" -> "details_model"
      [] p = "details_model" -> "details_serial"
      [] p = "details_serial" -> "details_temperature"
      [] p = "details_temperature" -> "details_exit"
      [] p = "details_exit" -> "details_smart_table"
      [] p = "details_smart_table" -> "details_add_smart"
      [] p = "details_add_smart" -> "details_print"
      [] OTHER -> "done"

\* The statement that follows each statement of details_command
DetailsFlow(p) ==
    CASE p = "details_get" -> "details_enter"
      [] p = "details_enter" -> "details_model"
      [] p = "details_model" -> "details_serial"
      [] p = "details_serial" -> "details_temperature"
      [] p = "details_temperature" -> "details_smart_table"
      [] p = "details_smart_table" -> "details_add_smart"
      [] p = "details_add_smart" -> "details_exit"
      [] p = "details_exit" -> "details_print"
      [] OTHER -> "done"

\* The statement that follows each statement of debug_command
DebugFlow(p) ==
    CASE p = "debug_get" -> "debug_enter"
      [] p = "debug_enter" -> "debug_dispatch"
      [] p = "debug_dispatch" -> "debug_call"
      [] p = "debug_call" -> "debug_display"
      [] p = "debug_display" -> "debug_exit"
      [] OTHER -> "done"

EnumLabels ==
    {"enum_next", "enum_enter", "enum_path", "enum_model", "enum_serial",
     "enum_temperature", "enum_add_row", "enum_exit", "enum_print"}

DetailsLabels ==
    {"details_get", "details_enter", "details_model", "details_serial",
     "details_temperature", "details_smart_table", "details_add_smart",
     "details_exit", "details_print"}

\* The statement that follows statement p in the normal flow of control
NextPc(p) ==
    IF p \in EnumLabels THEN EnumFlow(p)
    ELSE IF p \in DetailsLabels THEN DetailsFlow(p)
    ELSE DebugFlow(p)

\* RaiseInsideWith leaving the block without running its exit
RaiseInsideWithSkipsExit(exitpc) == "raised"

\* Where an exception raised inside a with block goes: to the block's exit
RaiseInsideWith(exitpc) == exitpc

\* ExitContinuation with the pending exception suppressed
ExitContinuationSwallows(pending, normalpc) == normalpc

\* Where control goes after __exit__: on to the caller with the pending
\* exception, or to the statement after the block
ExitContinuation(pending, normalpc) ==
    IF pending # "none" THEN "raised" ELSE normalpc

VARIABLES
    args,       \* the invocation: command, path, debug command, display
    pc,         \* the statement about to run; "done" or "raised" at the end
    devs,       \* the devices get_all_devices() yields, in order
    idx,        \* how many of them the loop has taken
    device,     \* the device of the current with block
    handles,    \* per device: its state and how often it was opened, closed
    log,        \* the accessors and operations called, in order
    vals,       \* the values read so far for the row being built
    table,      \* the rows of the table built by enumerate or details
    result,     \* debug: the operation selected from the dispatch table
    response,   \* debug: the bytes the device returned
    structure,  \* debug: the structure to display
    out,        \* what was printed, in order
    exc         \* the pending exception, "none" if none

vars == <<args, pc, devs, idx, device, handles, log, vals, table, result,
          response, structure, out, exc>>

NoVals == <<>>

Init ==
    /\ args \in Invocations
    /\ pc = CASE args.cmd = "enumerate" -> "enum_next"
              [] args.cmd = "details" -> "details_get"
              [] OTHER -> "debug_get"
    /\ devs \in (IF args.cmd = "enumerate" THEN Orders(Devices) ELSE {<<>>})
    /\ idx = 0
    /\ device = NoDevice
    /\ handles = [d \in Devices |-> [state |-> "Closed", opens |-> 0, closes |-> 0]]
    /\ log = <<>>
    /\ vals = NoVals
    /\ table = <<>>
    /\ result = "None"
    /\ response = <<>>
    /\ structure = NoStructure
    /\ out = <<>>
    /\ exc = "none"

\* ------------------------------------------------------------------------
\* The device, as the commands use it
\* ------------------------------------------------------------------------
IsOpen(d) == handles[d].state = "Open"

\* Device.__enter__: acquire the handle
Open(d) ==
    handles' = [handles EXCEPT ![d] =
                   [state |-> "Open", opens |-> @.opens + 1, closes |-> @.closes]]

\* Device.__exit__: release the handle
Close(d) ==
    handles' = [handles EXCEPT ![d] =
                   [state |-> "Closed", opens |-> @.opens, closes |-> @.closes + 1]]

\* An accessor or operation is called on the device and succeeds or fails
Called(d, name, ok) ==
    log' = Append(log, [dev |-> d, call |-> name, open |-> IsOpen(d), ok |-> ok])

\* The ways a call can fail: DeviceClosed on a closed device, else a
\* transport error
Failures(d) == IF IsOpen(d) THEN {"TransportError"} ELSE {"DeviceClosed"}

\* The values the accessors derive
ModelOf(d) == <<"model", d>>
SerialOf(d) == <<"serial", d>>
TemperatureOf(d) == 30 + d
PathOf(d) == <<"path", d>>
SmartEntry(k) ==
    [id |-> k, name |-> <<"attribute", k>>, current_value |-> 100 - k,
     worst_value |-> 90 - k, threshold |-> 10 + k, unit |-> "UNKNOWN"]
SmartTables == { [k \in 1..n |-> SmartEntry(k)] : n \in 0..MaxEntries }

\* ------------------------------------------------------------------------
\* Steps shared by the commands
\* ------------------------------------------------------------------------
\* get_device(path): the device at the path, of whatever type it probes as
GetDevice ==
    \/ /\ args.path \in Devices
       /\ \E v \in DeviceTypes : device' = [id |-> args.path, variant |-> v]
       /\ pc' = NextPc(pc)
       /\ exc' = exc
    \/ /\ args.path \notin Devices
       /\ exc' = "DeviceNotFound"
       /\ pc' = "raised"
       /\ device' = device

\* Entering a with block: the handle is acquired, or opening fails and the
\* block is never entered
WithEnter ==
    \/ /\ Open(device.id)
       /\ pc' = NextPc(pc)
       /\ exc' = exc
    \/ /\ exc' = "OSError"
       /\ pc' = "raised"
       /\ handles' = handles

\* Leaving a with block, normally, by return or by an exception
WithExit ==
    /\ Close(device.id)
    /\ pc' = ExitContinuation(exc, NextPc(pc))

\* A call of an accessor or operation inside a with block: it returns and
\* `ok` stores what it returned, or it raises
Call(name, exitpc, ok) ==
    /\ \/ /\ IsOpen(device.id)
          /\ Called(device.id, name, TRUE)
          /\ ok
          /\ pc' = NextPc(pc)
          /\ exc' = exc
       \/ /\ Called(device.id, name, FALSE)
          /\ \E e \in Failures(device.id) : exc' = e
          /\ pc' = RaiseInsideWith(exitpc)
          /\ UNCHANGED <<vals, table, response, structure>>

\* ------------------------------------------------------------------------
\* enumerate_command
\* ------------------------------------------------------------------------
EnumNext ==
    /\ pc = "enum_next"
    /\ IF idx = Len(devs)
       THEN /\ pc' = "enum_print"
            /\ UNCHANGED <<idx, device>>
       ELSE /\ \E v \in DeviceTypes : device' = [id |-> devs[idx + 1], variant |-> v]
            /\ idx' = idx + 1
            /\ pc' = NextPc(pc)
    /\ vals' = NoVals
    /\ UNCHANGED <<args, devs, handles, log, table, result, response, structure,
                   out, exc>>

EnumEnter ==
    /\ pc = "enum_enter"
    /\ WithEnter
    /\ UNCHANGED <<args, devs, idx, device, log, vals, table, result, response,
                   structure, out>>

EnumPath ==
    /\ pc = "enum_path"
    /\ Called(device.id, "path", TRUE)
    /\ vals' = Append(vals, PathOf(device.id))
    /\ pc' = NextPc(pc)
    /\ UNCHANGED <<args, devs, idx, device, handles, table, result, response,
                   structure, out, exc>>

EnumModel ==
    /\ pc = "enum_model"
    /\ Call("model", "enum_exit",
            /\ vals' = Append(vals, ModelOf(device.id))
            /\ UNCHANGED <<table, response, structure>>)
    /\ UNCHANGED <<args, devs, idx, device, handles, result, out>>

EnumSerial ==
    /\ pc = "enum_serial"
    /\ Call("serial", "enum_exit",
            /\ vals' = Append(vals, SerialOf(device.id))
            /\ UNCHANGED <<table, response, structure>>)
    /\ UNCHANGED <<args, devs, idx, device, handles, result, out>>

EnumTemperature ==
    /\ pc = "enum_temperature"
    /\ Call("temperature", "enum_exit",
            /\ vals' = Append(vals, TemperatureOf(device.id))
            /\ UNCHANGED <<table, response, structure>>)
    /\ UNCHANGED <<args, devs, idx, device, handles, result, out>>

EnumAddRow ==
    /\ pc = "enum_add_row"
    /\ table' = Append(table, vals)
    /\ pc' = NextPc(pc)
    /\ UNCHANGED <<args, devs, idx, device, handles, log, vals, result, response,
                   structure, out, exc>>

EnumExit ==
    /\ pc = "enum_exit"
    /\ WithExit
    /\ UNCHANGED <<args, devs, idx, device, log, vals, table, result, response,
                   structure, out, exc>>

EnumPrint ==
    /\ pc = "enum_print"
    /\ out' = Append(out, Output("table", table, <<>>, ""))
    /\ pc' = NextPc(pc)
    /\ UNCHANGED <<args, devs, idx, device, handles, log, vals, table, result,
                   response, structure, exc>>

\* ------------------------------------------------------------------------
\* details_command
\* ------------------------------------------------------------------------
DetailsGetDevice ==
    /\ pc = "details_get"
    /\ GetDevice
    /\ UNCHANGED <<args, devs, idx, handles, log, vals, table, result, response,
                   structure, out>>

DetailsEnter ==
    /\ pc = "details_enter"
    /\ WithEnter
    /\ UNCHANGED <<args, devs, idx, device, log, vals, table, result, response,
                   structure, out>>

DetailsModel ==
    /\ pc = "details_model"
    /\ Call("model", "details_exit",
            /\ table' = Append(table, <<"Model Number", ModelOf(device.id)>>)
            /\ UNCHANGED <<vals, response, structure>>)
    /\ UNCHANGED <<args, devs, idx, device, handles, result, out>>

DetailsSerial ==
    /\ pc = "details_serial"
    /\ Call("serial", "details_exit",
            /\ table' = Append(table, <<"Serial Number", SerialOf(device.id)>>)
            /\ UNCHANGED <<vals, response, structure>>)
    /\ UNCHANGED <<args, devs, idx, device, handles, result, out>>

DetailsTemperature ==
    /\ pc = "details_temperature"
    /\ Call("temperature", "details_exit",
            /\ table' = Append(table, <<"Temperature", TemperatureOf(device.id)>>)
            /\ UNCHANGED <<vals, response, structure>>)
    /\ UNCHANGED <<args, devs, idx, device, handles, result, out>>

DetailsSmartTable ==
    /\ pc = "details_smart_table"
    /\ Call("smart_table", "details_exit",
            /\ \E t \in SmartTables : vals' = t
            /\ UNCHANGED <<table, response, structure>>)
    /\ UNCHANGED <<args, devs, idx, device, handles, result, out>>

\* The loop over the entries and details_table.add_row("", smart_table)
DetailsAddSmart ==
    /\ pc = "details_add_smart"
    /\ table' = Append(table,
                  <<"", [k \in 1..Len(vals) |->
                           <<vals[k].id, vals[k].name, vals[k].current_value,
                             vals[k].worst_value, vals[k].threshold,
                             vals[k].unit>>]>>)
    /\ pc' = NextPc(pc)
    /\ UNCHANGED <<args, devs, idx, device, handles, log, vals, result, response,
                   structure, out, exc>>

DetailsExit ==
    /\ pc = "details_exit"
    /\ WithExit
    /\ UNCHANGED <<args, devs, idx, device, log, vals, table, result, response,
                   structure, out, exc>>

DetailsPrint ==
    /\ pc = "details_print"
    /\ out' = Append(out, Output("table", table, <<>>, ""))
    /\ pc' = NextPc(pc)
    /\ UNCHANGED <<args, devs, idx, device, handles, log, vals, table, result,
                   response, structure, exc>>

\* ------------------------------------------------------------------------
\* debug_command
\* ------------------------------------------------------------------------
DebugGetDevice ==
    /\ pc = "debug_get"
    /\ GetDevice
    /\ UNCHANGED <<args, devs, idx, handles, log, vals, table, result, response,
                   structure, out>>

DebugEnter ==
    /\ pc = "debug_enter"
    /\ WithEnter
    /\ UNCHANGED <<args, devs, idx, device, log, vals, table, result, response,
                   structure, out>>

\* The lookup in the dispatch table of the device's type
Lookup(dict) ==
    /\ result' = DictGet(dict, args.command)
    /\ IF result' = "None"
       THEN /\ out' = Append(out, Output("message", <<>>, <<>>, Unsupported))
            /\ pc' = "debug_exit"
       ELSE /\ out' = out
            /\ pc' = NextPc(pc)
    /\ exc' = exc

DebugDispatch ==
    /\ pc = "debug_dispatch"
    /\ \/ /\ device.variant = "SCSI"
          /\ Lookup(SCSICommands)
       \/ /\ device.variant = "NVMe"
          /\ Lookup(NVMECommands)
       \/ /\ device.variant \notin {"SCSI", "NVMe"}
          /\ exc' = "NotImplementedError"
          /\ pc' = RaiseInsideWith("debug_exit")
          /\ UNCHANGED <<result, out>>
    /\ UNCHANGED <<args, devs, idx, device, handles, log, vals, table, response,
                   structure>>

DebugCall ==
    /\ pc = "debug_call"
    /\ Call(result, "debug_exit",
            /\ \E type \in StructureTypes, seed \in Seeds :
                  /\ response' = Response(SizeOf(type), seed)
                  /\ structure' =
                        SelectStructure(device.variant,
                            OpReturn(device.variant, Decode(type, response')))
            /\ UNCHANGED <<vals, table>>)
    /\ UNCHANGED <<args, devs, idx, device, handles, result, out>>

DebugDisplay ==
    /\ pc = "debug_display"
    /\ \/ /\ args.display = "pretty"
          /\ out' = Append(out, Output("structure", print_structure(structure),
                                       <<>>, ""))
          /\ pc' = NextPc(pc)
          /\ exc' = exc
       \/ /\ args.display = "raw"
          /\ out' = Append(out, Output("raw", <<>>, Bytes(structure), ""))
          /\ pc' = NextPc(pc)
          /\ exc' = exc
       \/ /\ args.display = "bytearray"
          /\ out' = Append(out, Output("bytearray", <<>>, Bytes(structure), ""))
          /\ pc' = NextPc(pc)
          /\ exc' = exc
       \/ /\ exc' = "RenderError"
          /\ pc' = RaiseInsideWith("debug_exit")
          /\ out' = out
    /\ UNCHANGED <<args, devs, idx, device, handles, log, vals, table, result,
                   response, structure>>

DebugExit ==
    /\ pc = "debug_exit"
    /\ WithExit
    /\ UNCHANGED <<args, devs, idx, device, log, vals, table, result, response,
                   structure, out, exc>>

Next ==
    \/ EnumNext \/ EnumEnter \/ EnumPath \/ EnumModel \/ EnumSerial
    \/ EnumTemperature \/ EnumAddRow \/ EnumExit \/ EnumPrint
    \/ DetailsGetDevice \/ DetailsEnter \/ DetailsModel \/ DetailsSerial
    \/ DetailsTemperature \/ DetailsSmartTable \/ DetailsAddSmart
    \/ DetailsExit \/ DetailsPrint
    \/ DebugGetDevice \/ DebugEnter \/ DebugDispatch \/ DebugCall
    \/ DebugDisplay \/ DebugExit

Spec == Init /\ [][Next]_vars

\* ------------------------------------------------------------------------
\* Properties
\* ------------------------------------------------------------------------
Terminal == pc \in {"done", "raised"}

ExitLabels == {"enum_exit", "details_exit", "debug_exit"}

Entered == device.id \in Devices /\ handles[device.id].opens >= 1

Calls == [i \in 1..Len(log) |-> log[i].call]

\* C1: every device handle that is opened is released exactly once on every
\* exit path: no handle is closed twice or without having been opened, a
\* handle is open exactly between its open and its close, and when the
\* command ends (normally or with an exception) every opened handle has been
\* closed once and is closed.
C1_ReleasedExactlyOnce ==
    \A d \in Devices :
        /\ handles[d].closes <= handles[d].opens
        /\ handles[d].opens <= 1
        /\ IsOpen(d) <=> handles[d].opens = handles[d].closes + 1
        /\ Terminal => /\ handles[d].closes = handles[d].opens
                       /\ ~IsOpen(d)

C1_Witness ==
    /\ pc = "raised"
    /\ exc = "NotImplementedError"
    /\ handles[device.id].opens = 1
    /\ handles[device.id].closes = 1

\* C2: thresholds requested on an opened NVMe device through debug: no
\* operation is ever sent, no structure is obtained or rendered, no exception
\* is raised, and the command ends normally having printed only the
\* unsupported message.
C2_NvmeThresholdsUnsupported ==
    (args.cmd = "debug" /\ args.command = "thresholds"
        /\ device.variant = "NVMe" /\ Entered)
    => /\ log = <<>>
       /\ response = <<>>
       /\ structure = NoStructure
       /\ exc = "none"
       /\ pc # "raised"
       /\ pc \in {"debug_exit", "done"} =>
             out = <<Output("message", <<>>, <<>>, Unsupported)>>

C2_Witness ==
    /\ args.cmd = "debug" /\ args.command = "thresholds"
    /\ device.variant = "NVMe" /\ Entered
    /\ pc = "done"
    /\ out = <<Output("message", <<>>, <<>>, Unsupported)>>

ExpectedKind(type) ==
    CASE type.kind = "array" -> "array"
      [] type.kind = "uint128" -> "uint128"
      [] type.kind = "struct" -> "structure"
      [] OTHER -> "int"

RECURSIVE RowsGeneric(_, _)
RowsGeneric(type, rows) ==
    /\ Len(rows) = Len(type.fields)
    /\ \A i \in DOMAIN rows :
          LET ftype == type.fields[i][2]
              row == rows[i]
          IN  /\ row.name = type.fields[i][1]
              /\ row.kind = ExpectedKind(ftype)
              /\ ftype.kind = "array" =>
                    /\ row.text = <<>>
                    /\ row.table # <<>>
                    /\ \A k \in DOMAIN row.table :
                          Len(row.table[k].hex) = Len(row.table[k].ascii)
              /\ ftype.kind \in {"uint128", "int"} =>
                    row.text # <<>> /\ row.table = <<>>
              /\ ftype.kind = "struct" =>
                    row.text = <<>> /\ RowsGeneric(ftype, row.table)

\* C5: print_structure emits one row per declared field in declaration
\* order, and renders each field by exactly one kind decided from its value:
\* a byte array as a hex/ASCII sub-table (never as an integer), a 128-bit
\* integer as one hexadecimal integer (never as a nested table), a nested
\* structure as a recursively rendered sub-table, anything else as one
\* hexadecimal integer.
C5_GenericRendering ==
    \A i \in DOMAIN out :
        out[i].kind = "structure" => RowsGeneric(structure.type, out[i].rows)

C5_Witness ==
    /\ pc = "done"
    /\ Len(out) = 1 /\ out[1].kind = "structure"
    /\ Len(out[1].rows) = 2
    /\ out[1].rows[1].kind = "uint128"
    /\ out[1].rows[2].kind = "structure"
    /\ Len(out[1].rows[2].table) = 3

\* C6: a failed accessor or operation is the last call the command makes (it
\* is not issued again and nothing else is called), its exception stays
\* pending until it reaches the caller, control goes straight to the exit of
\* the with block and from there to the caller, and nothing is printed.
C6_FailureSurfaces ==
    /\ \A i \in DOMAIN log : ~log[i].ok => i = Len(log)
    /\ (log # <<>> /\ ~log[Len(log)].ok)
       => /\ exc # "none"
          /\ pc \in ExitLabels \cup {"raised"}
          /\ out = <<>>
    /\ exc # "none" => pc \in ExitLabels \cup {"raised"}
    /\ pc = "done" => exc = "none"

C6_Witness ==
    /\ args.cmd = "enumerate"
    /\ pc = "raised"
    /\ Len(table) = 1
    /\ Len(log) > 4
    /\ ~log[Len(log)].ok
    /\ out = <<>>

ExpectedOps(variant, command) ==
    IF variant = "SCSI"
    THEN <<IF command = "thresholds" THEN "smart_thresholds" ELSE command>>
    ELSE IF variant = "NVMe" /\ command \in {"identify", "smart"}
    THEN <<command>>
    ELSE <<>>

\* C7: debug issues at most one device operation, chosen by device type and
\* command: SCSI issues the matching operation for each of the four commands
\* and never prints the unsupported message; NVMe issues identify and smart
\* and prints the unsupported message, issuing nothing, for inquiry and
\* thresholds; any other device type issues nothing and fails.
C7_DebugDispatch ==
    (args.cmd = "debug" /\ Entered)
    => /\ Len(log) <= 1
       /\ pc \in {"debug_display", "debug_exit", "done", "raised"}
          => Calls = ExpectedOps(device.variant, args.command)
       /\ \A i \in DOMAIN out :
             out[i].kind = "message"
             <=> (device.variant = "NVMe"
                    /\ args.command \in {"inquiry", "thresholds"})
       /\ Terminal =>
            /\ (device.variant = "NVMe"
                  /\ args.command \in {"inquiry", "thresholds"})
               => pc = "done" /\ Len(out) = 1
            /\ device.variant = "Other"
               => pc = "raised" /\ exc = "NotImplementedError" /\ out = <<>>

C7_Witness ==
    /\ args.cmd = "debug" /\ args.command = "thresholds"
    /\ device.variant = "SCSI"
    /\ pc = "done"
    /\ Calls = <<"smart_thresholds">>
    /\ Len(out) = 1

DeclaredWidth(field) ==
    IF Len(field) = 3 THEN field[3] ELSE 8 * SizeOf(field[2])

RECURSIVE WidthsBefore(_, _)
WidthsBefore(fields, i) ==
    IF i <= 1 THEN 0
    ELSE WidthsBefore(fields, i - 1) + DeclaredWidth(fields[i - 1])

RECURSIVE RangesCumulative(_, _)
RangesCumulative(type, rows) ==
    /\ Len(rows) = Len(type.fields)
    /\ \A i \in DOMAIN rows :
          /\ rows[i].lo = WidthsBefore(type.fields, i)
          /\ rows[i].hi = rows[i].lo + DeclaredWidth(type.fields[i])
          /\ i > 1 => rows[i].lo = rows[i - 1].hi
          /\ rows[i].kind = "structure" =>
                RangesCumulative(type.fields[i][2], rows[i].table)

\* C8: the bit range shown for a field is [o, o+w), o the sum of the widths
\* of the preceding fields of the same structure and w its own width, so
\* consecutive ranges are contiguous; the rows of a nested structure start
\* again at 0 whatever the offset of the enclosing field.
C8_CumulativeRanges ==
    \A i \in DOMAIN out :
        out[i].kind = "structure"
        => RangesCumulative(structure.type, out[i].rows)

C8_Witness ==
    /\ Len(out) = 1 /\ out[1].kind = "structure"
    /\ Len(out[1].rows) = 2
    /\ out[1].rows[1].hi = 3
    /\ out[1].rows[2].lo = 3
    /\ out[1].rows[2].kind = "structure"
    /\ out[1].rows[2].table[1].lo = 0
    /\ out[1].rows[2].table[3].hi = 24

UsesDevice ==
    {"enum_path", "enum_model", "enum_serial", "enum_temperature",
     "details_model", "details_serial", "details_temperature",
     "details_smart_table", "debug_dispatch", "debug_call", "debug_display"}

\* C9: every accessor read and device operation is made on a device in the
\* Open state, every statement that reads the device or renders its result
\* runs while the device is open, and DeviceClosed is never raised.
C9_UsedOnlyWhileOpen ==
    /\ \A i \in DOMAIN log : log[i].open
    /\ pc \in UsesDevice => IsOpen(device.id)
    /\ exc # "DeviceClosed"

C9_Witness ==
    /\ args.cmd = "details"
    /\ pc = "done"
    /\ Calls = <<"model", "serial", "temperature", "smart_table">>
    /\ ~IsOpen(device.id)
    /\ Len(out) = 1

EnumOrder == <<"path", "model", "serial", "temperature">>

\* C10: enumerate takes the devices one after another in enumeration order
\* with at most one open at a time, reads path, model, serial, temperature
\* in that order on each, and on success prints one row per enumerated
\* device in the same order.
C10_EnumerateSerialized ==
    args.cmd = "enumerate"
    => /\ Cardinality({d \in Devices : IsOpen(d)}) <= 1
       /\ \A d \in Devices : IsOpen(d) => d = device.id
       /\ \A i \in DOMAIN log :
             /\ log[i].call = EnumOrder[((i - 1) % 4) + 1]
             /\ ((i - 1) \div 4) + 1 <= idx
             /\ log[i].dev = devs[((i - 1) \div 4) + 1]
       /\ \A k \in DOMAIN table :
             table[k] = <<PathOf(devs[k]), ModelOf(devs[k]), SerialOf(devs[k]),
                          TemperatureOf(devs[k])>>
       /\ pc = "done" =>
             /\ Len(table) = Len(devs)
             /\ Len(log) = 4 * Len(devs)
             /\ out = <<Output("table", table, <<>>, "")>>

C10_Witness ==
    /\ args.cmd = "enumerate"
    /\ pc = "done"
    /\ Len(devs) >= 2
    /\ Len(table) = Len(devs)
    /\ devs[1] > devs[2]

====
